---- MODULE Spec2Model ----
(***************************************************************************)
(* Model of src/main.py: the configuration pipeline of the dependency      *)
(* graph visualizer prototype (load_configuration, validate_configuration, *)
(* create_default_config, merge_configs, display_config_parameters, main). *)
(*                                                                         *)
(* Python values are tagged records, a Python str is a sequence of         *)
(* symbols (a symbol is one whitespace character WS or one maximal run of  *)
(* non-whitespace characters), a dict is a function from keys to values,   *)
(* and the text of a JSON file is a sequence of tokens.                    *)
(***************************************************************************)
EXTENDS Integers, Sequences, FiniteSets, TLC

VARIABLES fs, argv, args, pc, file_config, config, exc, out, exit_code, ran

vars == <<fs, argv, args, pc, file_config, config, exc, out, exit_code, ran>>

----------------------------------------------------------------------------
(* Bounds of the model *)

\* longest string (in symbols) among the generated string inputs
MaxStrLen == 2

\* largest JSON number among the generated inputs
MaxNum == 1

----------------------------------------------------------------------------
(* Python values *)

WS == " "

Str(s) == [t |-> "str", s |-> s, b |-> FALSE, n |-> 0]

Bool(b) == [t |-> "bool", s |-> <<>>, b |-> b, n |-> 0]

Num(n) == [t |-> "int", s |-> <<>>, b |-> FALSE, n |-> n]

None == [t |-> "NoneType", s |-> <<>>, b |-> FALSE, n |-> 0]

\* bool(v): the truth value Python's `if v:` tests
Truthy(v) ==
    CASE v.t = "bool" -> v.b
      [] v.t = "str" -> Len(v.s) > 0
      [] v.t = "int" -> v.n # 0
      [] OTHER -> FALSE

\* isinstance(v, str)
IsStr(v) == v.t = "str"

RECURSIVE lstrip(_)
lstrip(s) == IF s # <<>> /\ Head(s) = WS THEN lstrip(Tail(s)) ELSE s

RECURSIVE rstrip(_)
rstrip(s) ==
    IF s # <<>> /\ s[Len(s)] = WS THEN rstrip(SubSeq(s, 1, Len(s) - 1)) ELSE s

\* str.strip()
strip(s) == rstrip(lstrip(s))

\* a dict: a function from keys to values; the empty dict
EmptyDict == [k \in {} |-> None]

\* d[k] = v
DictSet(d, k, v) == [x \in (DOMAIN d) \cup {k} |-> IF x = k THEN v ELSE d[x]]

\* dict.copy(): a new mapping with the same keys and values
dict_copy(d) == [x \in DOMAIN d |-> d[x]]

\* what a name is bound to: a dict object or another value
PyDict(d) == [py |-> "dict", d |-> d, v |-> None]

PyScalar(v) == [py |-> "scalar", d |-> EmptyDict, v |-> v]

\* a name not yet assigned
Unbound == [py |-> "unbound", d |-> EmptyDict, v |-> None]

----------------------------------------------------------------------------
(* Exceptions *)

Exc(type, msg, field) == [type |-> type, msg |-> msg, field |-> field]

NoExc == Exc("none", "", "")

----------------------------------------------------------------------------
(* Keys of the configuration *)

required_params ==
    <<"package_name", "repository_url", "test_repository_mode",
      "output_filename", "ascii_tree_output">>

\* every key of the model: the seven of the default configuration, in the
\* order of its literal, and one key the program does not know
KeyOrder ==
    <<"package_name", "repository_url", "test_repository_mode",
      "test_repository_path", "output_filename", "ascii_tree_output",
      "package_filter", "schema_version">>

Keys == {KeyOrder[i] : i \in 1..Len(KeyOrder)}

----------------------------------------------------------------------------
(* JSON text: tokens, json.dump and json.load *)

Tok(k, s, n) == [k |-> k, s |-> s, n |-> n]

LBrace == Tok("{", <<>>, 0)

RBrace == Tok("}", <<>>, 0)

Colon == Tok(":", <<>>, 0)

Comma == Tok(",", <<>>, 0)

\* text that is no JSON token
Junk == Tok("junk", <<>>, 0)

\* a variant of json_encode_value that writes a boolean as Python prints it
json_encode_value_str_bool(v) ==
    CASE v.t = "str" -> Tok("string", v.s, 0)
      [] v.t = "bool" -> IF v.b THEN Tok("string", <<"True">>, 0)
                                ELSE Tok("string", <<"False">>, 0)
      [] v.t = "int" -> Tok("number", <<>>, v.n)
      [] OTHER -> Tok("null", <<>>, 0)

\* the JSON encoding of a scalar
json_encode_value(v) ==
    CASE v.t = "str" -> Tok("string", v.s, 0)
      [] v.t = "bool" -> IF v.b THEN Tok("true", <<>>, 0) ELSE Tok("false", <<>>, 0)
      [] v.t = "int" -> Tok("number", <<>>, v.n)
      [] OTHER -> Tok("null", <<>>, 0)

IsValueTok(tok) == tok.k \in {"string", "true", "false", "number", "null"}

\* the Python value of a JSON scalar token
json_decode_value(tok) ==
    CASE tok.k = "string" -> Str(tok.s)
      [] tok.k = "true" -> Bool(TRUE)
      [] tok.k = "false" -> Bool(FALSE)
      [] tok.k = "number" -> Num(tok.n)
      [] OTHER -> None

\* json.dump of a dict given as its sequence of <<key, value>> items, in order
\* (indentation is whitespace between tokens and is not part of the tokens)
RECURSIVE json_dump_items(_, _)
json_dump_items(items, i) ==
    IF i > Len(items) THEN <<>>
    ELSE (IF i > 1 THEN <<Comma>> ELSE <<>>)
         \o <<Tok("string", <<items[i][1]>>, 0), Colon, json_encode_value(items[i][2])>>
         \o json_dump_items(items, i + 1)

json_dump(items) == <<LBrace>> \o json_dump_items(items, 1) \o <<RBrace>>

\* the items of a dict, keys in KeyOrder
RECURSIVE ItemsFrom(_, _)
ItemsFrom(d, i) ==
    IF i > Len(KeyOrder) THEN <<>>
    ELSE (IF KeyOrder[i] \in DOMAIN d THEN <<<<KeyOrder[i], d[KeyOrder[i]]>>>> ELSE <<>>)
         \o ItemsFrom(d, i + 1)

Items(d) == ItemsFrom(d, 1)

ParseFail == [ok |-> FALSE, value |-> Unbound]

ParseOk(v) == [ok |-> TRUE, value |-> v]

\* the members of a JSON object from token i on; st is what the grammar
\* expects next; a repeated key keeps its last value
RECURSIVE json_parse_object(_, _, _, _, _)
json_parse_object(toks, i, acc, st, key) ==
    IF i > Len(toks) THEN ParseFail
    ELSE LET tok == toks[i] IN
      CASE st = "first" /\ tok.k = "}" ->
             IF i = Len(toks) THEN ParseOk(PyDict(acc)) ELSE ParseFail
        [] st \in {"first", "key"} /\ tok.k = "string" /\ Len(tok.s) = 1 ->
             json_parse_object(toks, i + 1, acc, "colon", tok.s[1])
        [] st = "colon" /\ tok.k = ":" ->
             json_parse_object(toks, i + 1, acc, "value", key)
        [] st = "value" /\ IsValueTok(tok) ->
             json_parse_object(toks, i + 1, DictSet(acc, key, json_decode_value(tok)), "sep", key)
        [] st = "sep" /\ tok.k = "," ->
             json_parse_object(toks, i + 1, acc, "key", key)
        [] st = "sep" /\ tok.k = "}" ->
             IF i = Len(toks) THEN ParseOk(PyDict(acc)) ELSE ParseFail
        [] OTHER -> ParseFail

\* json.load: a flat object, or a single scalar; anything else is a
\* JSONDecodeError
json_load(toks) ==
    IF toks = <<>> THEN ParseFail
    ELSE IF toks[1].k = "{" THEN json_parse_object(toks, 2, EmptyDict, "first", "")
    ELSE IF Len(toks) = 1 /\ IsValueTok(toks[1])
         THEN ParseOk(PyScalar(json_decode_value(toks[1])))
    ELSE ParseFail

----------------------------------------------------------------------------
(* The file system: each path is absent, a directory, or a file with a text *)

Absent == [kind |-> "absent", text |-> <<>>]

Dir == [kind |-> "dir", text |-> <<>>]

File(text) == [kind |-> "file", text |-> text]

----------------------------------------------------------------------------
(* load_configuration *)

LoadResult(e, v) == [exc |-> e, value |-> v]

\* os.path.exists is false: FileNotFoundError, re-raised as it is; open() of
\* a directory raises an OSError, wrapped in RuntimeError; a JSONDecodeError
\* is wrapped in ValueError
load_configuration(fsys, config_file) ==
    LET f == fsys[config_file] IN
    IF f.kind = "absent"
    THEN LoadResult(Exc("FileNotFoundError", "not_found", ""), Unbound)
    ELSE IF f.kind = "dir"
    THEN LoadResult(Exc("RuntimeError", "load_unexpected", ""), Unbound)
    ELSE LET r == json_load(f.text) IN
         IF r.ok THEN LoadResult(NoExc, r.value)
         ELSE LoadResult(Exc("ValueError", "json_parse", ""), Unbound)

----------------------------------------------------------------------------
(* validate_configuration *)

\* a variant of first_missing that scans required_params from the end
RECURSIVE last_missing(_, _)
last_missing(d, i) ==
    LET j == Len(required_params) + 1 - i IN
    IF i > Len(required_params) THEN ""
    ELSE IF required_params[j] \notin DOMAIN d THEN required_params[j]
    ELSE last_missing(d, i + 1)

\* the loop over required_params: the first one not in config, or "" if none
RECURSIVE first_missing(_, _)
first_missing(d, i) ==
    IF i > Len(required_params) THEN ""
    ELSE IF required_params[i] \notin DOMAIN d THEN required_params[i]
    ELSE first_missing(d, i + 1)

\* a variant of validate_configuration that checks the URL in both modes
validate_url_in_both_modes(d) ==
    LET m == first_missing(d, 1) IN
    IF m # ""
    THEN Exc("ValueError", "missing_param", m)
    ELSE IF ~IsStr(d["package_name"]) \/ strip(d["package_name"].s) = <<>>
    THEN Exc("ValueError", "bad_package_name", "package_name")
    ELSE IF Truthy(d["test_repository_mode"]) /\ "test_repository_path" \notin DOMAIN d
    THEN Exc("ValueError", "missing_test_path", "test_repository_path")
    ELSE LET url == d["repository_url"] IN
         IF ~IsStr(url) \/ strip(url.s) = <<>>
         THEN Exc("ValueError", "bad_url", "repository_url")
         ELSE NoExc

\* the exception validate_configuration raises on the dict d, NoExc if none
validate_configuration(d) ==
    LET m == first_missing(d, 1) IN
    IF m # ""
    THEN Exc("ValueError", "missing_param", m)
    ELSE IF ~IsStr(d["package_name"]) \/ strip(d["package_name"].s) = <<>>
    THEN Exc("ValueError", "bad_package_name", "package_name")
    ELSE IF Truthy(d["test_repository_mode"])
    THEN IF "test_repository_path" \notin DOMAIN d
         THEN Exc("ValueError", "missing_test_path", "test_repository_path")
         ELSE NoExc
    ELSE LET url == d["repository_url"] IN
         IF ~IsStr(url) \/ strip(url.s) = <<>>
         THEN Exc("ValueError", "bad_url", "repository_url")
         ELSE NoExc

----------------------------------------------------------------------------
(* create_default_config *)

default_config ==
    << <<"package_name", Str(<<"example-package">>)>>,
       <<"repository_url", Str(<<"https://github.com/example/repo">>)>>,
       <<"test_repository_mode", Bool(FALSE)>>,
       <<"test_repository_path", Str(<<"./test-repo">>)>>,
       <<"output_filename", Str(<<"dependency_graph.png">>)>>,
       <<"ascii_tree_output", Bool(TRUE)>>,
       <<"package_filter", Str(<<>>)>> >>

\* open(config_file, 'w') fails on a directory and the error propagates;
\* otherwise the file is created or truncated, the dump written and the
\* confirmation printed
create_default_config(fsys, config_file) ==
    IF fsys[config_file].kind = "dir"
    THEN [exc |-> Exc("IsADirectoryError", "open_w", ""), fs |-> fsys, out |-> <<>>]
    ELSE [exc |-> NoExc,
          fs |-> [fsys EXCEPT ![config_file] = File(json_dump(default_config))],
          out |-> << <<"created", config_file>> >>]

----------------------------------------------------------------------------
(* merge_configs *)

\* a variant of merge_strings that fills in package_filter when the flag is absent
merge_strings_default_filter(c, cli_args) ==
    LET c1 == IF Truthy(cli_args.package_name)
              THEN DictSet(c, "package_name", cli_args.package_name) ELSE c
        c2 == IF Truthy(cli_args.repository_url)
              THEN DictSet(c1, "repository_url", cli_args.repository_url) ELSE c1
        c3 == IF Truthy(cli_args.output_filename)
              THEN DictSet(c2, "output_filename", cli_args.output_filename) ELSE c2
    IN  IF cli_args.package_filter # None
        THEN DictSet(c3, "package_filter", cli_args.package_filter)
        ELSE IF "package_filter" \in DOMAIN c3 THEN c3
        ELSE DictSet(c3, "package_filter", Str(<<>>))

\* a variant of merge_strings that tests package_filter for truth like the others
merge_strings_truthy_filter(c, cli_args) ==
    LET c1 == IF Truthy(cli_args.package_name)
              THEN DictSet(c, "package_name", cli_args.package_name) ELSE c
        c2 == IF Truthy(cli_args.repository_url)
              THEN DictSet(c1, "repository_url", cli_args.repository_url) ELSE c1
        c3 == IF Truthy(cli_args.output_filename)
              THEN DictSet(c2, "output_filename", cli_args.output_filename) ELSE c2
    IN  IF Truthy(cli_args.package_filter)
        THEN DictSet(c3, "package_filter", cli_args.package_filter) ELSE c3

\* the string overrides, lines 71-78
merge_strings(c, cli_args) ==
    LET c1 == IF Truthy(cli_args.package_name)
              THEN DictSet(c, "package_name", cli_args.package_name) ELSE c
        c2 == IF Truthy(cli_args.repository_url)
              THEN DictSet(c1, "repository_url", cli_args.repository_url) ELSE c1
        c3 == IF Truthy(cli_args.output_filename)
              THEN DictSet(c2, "output_filename", cli_args.output_filename) ELSE c2
    IN  IF cli_args.package_filter # None
        THEN DictSet(c3, "package_filter", cli_args.package_filter) ELSE c3

\* a variant of merge_flags that tests the negative flag of each pair first
merge_flags_positive_last(c, cli_args) ==
    LET c1 == IF cli_args.no_ascii_tree THEN DictSet(c, "ascii_tree_output", Bool(FALSE)) ELSE c
        c2 == IF cli_args.ascii_tree THEN DictSet(c1, "ascii_tree_output", Bool(TRUE)) ELSE c1
        c3 == IF cli_args.no_test_mode THEN DictSet(c2, "test_repository_mode", Bool(FALSE)) ELSE c2
    IN  IF cli_args.test_mode THEN DictSet(c3, "test_repository_mode", Bool(TRUE)) ELSE c3

\* the flag overrides, lines 81-88
merge_flags(c, cli_args) ==
    LET c1 == IF cli_args.ascii_tree THEN DictSet(c, "ascii_tree_output", Bool(TRUE)) ELSE c
        c2 == IF cli_args.no_ascii_tree THEN DictSet(c1, "ascii_tree_output", Bool(FALSE)) ELSE c1
        c3 == IF cli_args.test_mode THEN DictSet(c2, "test_repository_mode", Bool(TRUE)) ELSE c2
    IN  IF cli_args.no_test_mode THEN DictSet(c3, "test_repository_mode", Bool(FALSE)) ELSE c3

\* a variant of merge_configs without the copy: the assignments go to the
\* caller's mapping, which is also what is returned
merge_configs_no_copy(fc, cli_args) ==
    IF fc.py # "dict"
    THEN [exc |-> Exc("AttributeError", "no_copy", ""), file |-> fc, config |-> Unbound]
    ELSE LET c == PyDict(merge_flags(merge_strings(fc.d, cli_args), cli_args)) IN
         [exc |-> NoExc, file |-> c, config |-> c]

\* exc: what the call raises; file: the caller's mapping after the call;
\* config: the mapping returned.  Only a dict has .copy() among the values
\* json.load gives here; the assignments go to the copy
merge_configs(fc, cli_args) ==
    IF fc.py # "dict"
    THEN [exc |-> Exc("AttributeError", "no_copy", ""), file |-> fc, config |-> Unbound]
    ELSE [exc |-> NoExc,
          file |-> fc,
          config |-> PyDict(merge_flags(merge_strings(dict_copy(fc.d), cli_args), cli_args))]

----------------------------------------------------------------------------
(* display_config_parameters and the summary of main *)

RECURSIVE kv_lines(_, _)
kv_lines(items, i) ==
    IF i > Len(items) THEN <<>>
    ELSE << <<"kv", items[i][1]>> >> \o kv_lines(items, i + 1)

\* header, one line per key, footer (keys listed in KeyOrder)
display_config_parameters(d) ==
    << <<"header", "">> >> \o kv_lines(Items(d), 1) \o << <<"footer", "">> >>

\* lines 156-160
summary_lines(d) ==
    << <<"ok", "">>, <<"ready", "package_name">>, <<"saved_to", "output_filename">> >>
    \o (IF Truthy(d["ascii_tree_output"]) THEN << <<"ascii", "">> >> ELSE <<>>)

----------------------------------------------------------------------------
(* Inputs *)

\* marks a key left out of a generated dict
Missing == [t |-> "missing", s |-> <<>>, b |-> FALSE, n |-> 0]

\* the dict with KeyOrder[i] |-> vals[i] for every vals[i] that is not Missing
MkDict(vals) ==
    LET idx == {i \in 1..Len(KeyOrder) : vals[i] # Missing} IN
    [k \in {KeyOrder[i] : i \in idx} |-> vals[CHOOSE i \in idx : KeyOrder[i] = k]]

\* the strings of at most MaxStrLen symbols over whitespace and one word
Strings == UNION {[1..n -> {WS, "a"}] : n \in 0..MaxStrLen}

Numbers == {Num(n) : n \in 0..MaxNum}

Booleans == {Bool(TRUE), Bool(FALSE)}

\* the command line: one field per flag of setup_cli_parser; help is the
\* -h/--help flag every ArgumentParser has, which ends the process inside
\* parse_args and so is never true in a namespace main gets
Namespace(cf, cc, pn, url, outf, filt, at, nat, tm, ntm) ==
    [config |-> cf, create_config |-> cc, package_name |-> pn,
     repository_url |-> url, output_filename |-> outf, package_filter |-> filt,
     ascii_tree |-> at, no_ascii_tree |-> nat, test_mode |-> tm, no_test_mode |-> ntm,
     help |-> FALSE]

\* no flag given but --config
NoOverrides(cf) ==
    Namespace(cf, FALSE, None, None, None, None, FALSE, FALSE, FALSE, FALSE)

Paths == {"config.json", "my.json"}

\* a valid configuration that is not the default one and has an unknown key
custom_config ==
    MkDict(<<Str(<<"a">>), Str(<<"u">>), Bool(FALSE), Missing, Str(<<"o">>),
             Bool(FALSE), Missing, Num(1)>>)

\* the contents of a path before the program runs
PriorEntries ==
    { Absent, Dir,
      File(json_dump(default_config)),
      File(json_dump(Items(custom_config))),
      \* output_filename left out
      File(json_dump(Items(MkDict(<<Str(<<"a">>), Str(<<"u">>), Bool(FALSE), Missing,
                                    Missing, Bool(TRUE), Missing, Missing>>)))),
      \* test mode without test_repository_path
      File(json_dump(Items(MkDict(<<Str(<<"a">>), Str(<<"u">>), Bool(TRUE), Missing,
                                    Str(<<"o">>), Bool(TRUE), Missing, Missing>>)))),
      \* malformed JSON: the closing brace is cut off
      File(<<LBrace>> \o json_dump_items(default_config, 1)),
      \* valid JSON that is no object
      File(<<Tok("number", <<>>, MaxNum)>>) }

----------------------------------------------------------------------------
(* main: one action per stage.  pc is the position in main, ran the stages   *)
(* entered so far, exit_code the exit status once pc = "done" (-1 before).   *)

ExitError == 1

\* argparse: both flags of a mutually exclusive group is a usage error
usage_error(a) ==
    \/ a.ascii_tree /\ a.no_ascii_tree
    \/ a.test_mode /\ a.no_test_mode

\* line 136.  argparse reads the flags from left to right: --help prints the
\* help and ends the process with status 0, the second flag of a mutually
\* exclusive group is a usage error that ends it with status 2 (the usage
\* text goes to stderr); with both on the command line the one met first
\* decides
ParseArgs ==
    /\ pc = "parse"
    /\ ran' = Append(ran, "parse")
    /\ \/ /\ argv.help
          /\ pc' = "done"
          /\ exit_code' = 0
          /\ out' = Append(out, <<"help", "">>)
          /\ UNCHANGED args
       \/ /\ usage_error(argv)
          /\ pc' = "done"
          /\ exit_code' = 2
          /\ UNCHANGED <<args, out>>
       \/ /\ ~argv.help /\ ~usage_error(argv)
          /\ pc' = "parsed"
          /\ args' = argv
          /\ UNCHANGED <<exit_code, out>>
    /\ UNCHANGED <<fs, argv, file_config, config, exc>>

\* lines 138-140; the call is outside the try, so what it raises ends the
\* process with a traceback and status 1
CreateConfig ==
    /\ pc = "parsed"
    /\ args.create_config
    /\ LET r == create_default_config(fs, args.config) IN
       /\ fs' = r.fs
       /\ out' = out \o r.out
       /\ exc' = r.exc
       /\ exit_code' = IF r.exc = NoExc THEN 0 ELSE 1
    /\ pc' = "done"
    /\ ran' = Append(ran, "create")
    /\ UNCHANGED <<argv, args, file_config, config>>

\* line 144
Load ==
    /\ pc = "parsed"
    /\ ~args.create_config
    /\ LET r == load_configuration(fs, args.config) IN
       /\ exc' = r.exc
       /\ file_config' = r.value
       /\ pc' = IF r.exc = NoExc THEN "merge" ELSE "except"
    /\ ran' = Append(ran, "load")
    /\ UNCHANGED <<fs, argv, args, config, out, exit_code>>

\* line 147
Merge ==
    /\ pc = "merge"
    /\ LET r == merge_configs(file_config, args) IN
       /\ exc' = r.exc
       /\ file_config' = r.file
       /\ config' = r.config
       /\ pc' = IF r.exc = NoExc THEN "validate" ELSE "except"
    /\ ran' = Append(ran, "merge")
    /\ UNCHANGED <<fs, argv, args, out, exit_code>>

\* a variant of Validate that goes on to the display whatever validation raised
ValidateUnchecked ==
    /\ pc = "validate"
    /\ exc' = validate_configuration(config.d)
    /\ pc' = "present"
    /\ ran' = Append(ran, "validate")
    /\ UNCHANGED <<fs, argv, args, file_config, config, out, exit_code>>

\* line 150
Validate ==
    /\ pc = "validate"
    /\ exc' = validate_configuration(config.d)
    /\ pc' = IF exc' = NoExc THEN "present" ELSE "except"
    /\ ran' = Append(ran, "validate")
    /\ UNCHANGED <<fs, argv, args, file_config, config, out, exit_code>>

\* line 153
Present ==
    /\ pc = "present"
    /\ out' = out \o display_config_parameters(config.d)
    /\ pc' = "summary"
    /\ ran' = Append(ran, "present")
    /\ UNCHANGED <<fs, argv, args, file_config, config, exc, exit_code>>

\* lines 156-160, then main returns
Summary ==
    /\ pc = "summary"
    /\ out' = out \o summary_lines(config.d)
    /\ pc' = "done"
    /\ exit_code' = 0
    /\ ran' = Append(ran, "summary")
    /\ UNCHANGED <<fs, argv, args, file_config, config, exc>>

\* the exception classes of the model and their base classes
IsSubclass(type, cls) ==
    \/ type = cls
    \/ cls = "Exception"
    \/ cls = "OSError" /\ type \in {"FileNotFoundError", "IsADirectoryError"}

\* the first except clause of main that matches e
except_clause(e) ==
    IF IsSubclass(e.type, "FileNotFoundError") THEN "FileNotFoundError"
    ELSE IF IsSubclass(e.type, "ValueError") THEN "ValueError"
    ELSE "Exception"

\* lines 162-165
ExceptFileNotFound ==
    /\ pc = "except"
    /\ except_clause(exc) = "FileNotFoundError"
    /\ out' = out \o << <<"not_found", args.config>>, <<"hint_create_config", "">> >>
    /\ exit_code' = ExitError
    /\ pc' = "done"
    /\ UNCHANGED <<fs, argv, args, file_config, config, exc, ran>>

\* lines 166-168
ExceptValueError ==
    /\ pc = "except"
    /\ except_clause(exc) = "ValueError"
    /\ out' = Append(out, <<"validation_error", exc.msg>>)
    /\ exit_code' = ExitError
    /\ pc' = "done"
    /\ UNCHANGED <<fs, argv, args, file_config, config, exc, ran>>

\* lines 169-171
ExceptException ==
    /\ pc = "except"
    /\ except_clause(exc) = "Exception"
    /\ out' = Append(out, <<"unexpected_error", exc.msg>>)
    /\ exit_code' = ExitError
    /\ pc' = "done"
    /\ UNCHANGED <<fs, argv, args, file_config, config, exc, ran>>

\* the command lines of the runs of main
MainArgv ==
    { [Namespace(cf, cc, pn, url, outf, filt, at, nat, tm, ntm) EXCEPT !.help = h] :
        h \in BOOLEAN, cf \in Paths, cc \in BOOLEAN,
        pn \in {None, Str(<<>>), Str(<<"b">>)},
        url \in {None, Str(<<"v">>)},
        outf \in {None, Str(<<"p">>)},
        filt \in {None, Str(<<>>)},
        at \in BOOLEAN, nat \in BOOLEAN, tm \in BOOLEAN, ntm \in BOOLEAN }

Init ==
    /\ fs \in [Paths -> PriorEntries]
    /\ argv \in MainArgv
    /\ args = NoOverrides("config.json")
    /\ pc = "parse"
    /\ file_config = Unbound
    /\ config = Unbound
    /\ exc = NoExc
    /\ out = <<>>
    /\ exit_code = -1
    /\ ran = <<>>

Next ==
    \/ ParseArgs
    \/ CreateConfig
    \/ Load
    \/ Merge
    \/ Validate
    \/ Present
    \/ Summary
    \/ ExceptFileNotFound
    \/ ExceptValueError
    \/ ExceptException

Spec == Init /\ [][Next]_vars

----------------------------------------------------------------------------
(* validate_configuration called on generated mappings *)

ValidateInputs ==
    { MkDict(<<pn, url, mode, path, outf, ascii, Missing, Missing>>) :
        pn \in {Missing, Num(MaxNum)} \cup {Str(x) : x \in Strings},
        url \in {Missing, None} \cup {Str(x) : x \in Strings},
        mode \in {Missing, None} \cup Booleans \cup Numbers
                 \cup {Str(<<>>), Str(<<"false">>)},
        path \in {Missing, Str(<<"./t">>)},
        outf \in {Missing, Str(<<"o">>)},
        ascii \in {Missing, Bool(TRUE)} }

InitValidate ==
    /\ config \in {PyDict(d) : d \in ValidateInputs}
    /\ pc = "call_validate"
    /\ fs = [p \in Paths |-> Absent]
    /\ argv = NoOverrides("config.json")
    /\ args = NoOverrides("config.json")
    /\ file_config = Unbound
    /\ exc = NoExc
    /\ out = <<>>
    /\ exit_code = -1
    /\ ran = <<>>

CallValidate ==
    /\ pc = "call_validate"
    /\ exc' = validate_configuration(config.d)
    /\ pc' = "validate_returned"
    /\ ran' = Append(ran, "validate")
    /\ UNCHANGED <<fs, argv, args, file_config, config, out, exit_code>>

NextValidate == CallValidate

SpecValidate == InitValidate /\ [][NextValidate]_vars

----------------------------------------------------------------------------
(* merge_configs called on generated mappings and namespaces, among them    *)
(* namespaces with both flags of a pair, which a caller other than the      *)
(* parser can build                                                         *)

MergeFileConfigs ==
    { MkDict(<<pn, url, mode, Missing, outf, ascii, filt, extra>>) :
        pn \in {Missing, Str(<<"a">>)},
        url \in {Missing, Str(<<"u">>)},
        mode \in {Missing} \cup Booleans,
        outf \in {Missing, Str(<<"o">>)},
        ascii \in {Missing} \cup Booleans,
        filt \in {Missing, Str(<<"f">>)},
        extra \in {Missing, Num(MaxNum)} }

MergeArgs ==
    { Namespace("config.json", FALSE, pn, url, outf, filt, at, nat, tm, ntm) :
        pn \in {None, Str(<<>>), Str(<<"b">>)},
        url \in {None, Str(<<>>), Str(<<"v">>)},
        outf \in {None, Str(<<>>), Str(<<"p">>)},
        filt \in {None, Str(<<>>), Str(<<"g">>)},
        at \in BOOLEAN, nat \in BOOLEAN, tm \in BOOLEAN, ntm \in BOOLEAN }

InitMerge ==
    /\ file_config \in {PyDict(d) : d \in MergeFileConfigs}
    /\ args \in MergeArgs
    /\ argv = args
    /\ pc = "call_merge"
    /\ fs = [p \in Paths |-> Absent]
    /\ config = Unbound
    /\ exc = NoExc
    /\ out = <<>>
    /\ exit_code = -1
    /\ ran = <<>>

CallMerge ==
    /\ pc = "call_merge"
    /\ LET r == merge_configs(file_config, args) IN
       /\ exc' = r.exc
       /\ file_config' = r.file
       /\ config' = r.config
    /\ pc' = "merge_returned"
    /\ ran' = Append(ran, "merge")
    /\ UNCHANGED <<fs, argv, args, out, exit_code>>

NextMerge == CallMerge

SpecMerge == InitMerge /\ [][NextMerge]_vars

----------------------------------------------------------------------------
(* create_default_config(path), then load_configuration(path), then         *)
(* validate_configuration on what was loaded                                *)

InitRoundTrip ==
    /\ fs \in [Paths -> PriorEntries]
    /\ args \in {NoOverrides(p) : p \in Paths}
    /\ argv = args
    /\ pc = "call_create"
    /\ file_config = Unbound
    /\ config = Unbound
    /\ exc = NoExc
    /\ out = <<>>
    /\ exit_code = -1
    /\ ran = <<>>

CallCreate ==
    /\ pc = "call_create"
    /\ LET r == create_default_config(fs, args.config) IN
       /\ fs' = r.fs
       /\ out' = out \o r.out
       /\ exc' = r.exc
       /\ pc' = IF r.exc = NoExc THEN "call_load" ELSE "raised"
    /\ ran' = Append(ran, "create")
    /\ UNCHANGED <<argv, args, file_config, config, exit_code>>

CallLoad ==
    /\ pc = "call_load"
    /\ LET r == load_configuration(fs, args.config) IN
       /\ exc' = r.exc
       /\ config' = r.value
       /\ pc' = IF r.exc = NoExc THEN "call_validate" ELSE "raised"
    /\ ran' = Append(ran, "load")
    /\ UNCHANGED <<fs, argv, args, file_config, out, exit_code>>

NextRoundTrip ==
    \/ CallCreate
    \/ CallLoad
    \/ CallValidate

SpecRoundTrip == InitRoundTrip /\ [][NextRoundTrip]_vars

----------------------------------------------------------------------------
(* Properties of validate_configuration (SpecValidate) *)

\* positions in required_params of the keys the mapping lacks
AbsentRequired(d) == {i \in 1..Len(required_params) : required_params[i] \notin DOMAIN d}

Least(S) == CHOOSE i \in S : \A j \in S : i <= j

\* C1: a call reports at most one error, and whenever some required key is
\* absent that error is the missing-parameter error naming the first absent
\* key in the order package_name, repository_url, test_repository_mode,
\* output_filename, ascii_tree_output, whatever the other keys hold (so it
\* comes before the package_name check and the test-mode branch)
C1_FirstAbsentKeyReported ==
    pc = "validate_returned" =>
        /\ exc = NoExc \/ (exc.type = "ValueError" /\ exc.field \in Keys)
        /\ AbsentRequired(config.d) # {} =>
             exc = Exc("ValueError", "missing_param",
                       required_params[Least(AbsentRequired(config.d))])

\* package_name and output_filename both absent: package_name is reported
C1_Witness ==
    /\ pc = "validate_returned"
    /\ "package_name" \notin DOMAIN config.d
    /\ "output_filename" \notin DOMAIN config.d
    /\ "repository_url" \in DOMAIN config.d
    /\ exc = Exc("ValueError", "missing_param", "package_name")

\* v == True in Python: the boolean true, and the number 1 that equals it
IsTrue(v) == v = Bool(TRUE) \/ v = Num(1)

\* C2: every configuration that passes validation satisfies the data-model
\* invariant, for every JSON value of test_repository_mode: if the value is
\* true then test_repository_path is present, otherwise repository_url is a
\* non-empty string; and test mode true without test_repository_path is
\* rejected naming test_repository_path
C2_InvariantOnSuccess ==
    pc = "validate_returned" =>
        /\ exc = NoExc =>
             IF IsTrue(config.d["test_repository_mode"])
             THEN "test_repository_path" \in DOMAIN config.d
             ELSE /\ IsStr(config.d["repository_url"])
                  /\ config.d["repository_url"].s # <<>>
        /\ ( /\ AbsentRequired(config.d) = {}
             /\ exc.msg # "bad_package_name"
             /\ config.d["test_repository_mode"] = Bool(TRUE)
             /\ "test_repository_path" \notin DOMAIN config.d )
           => exc.field = "test_repository_path"

\* C3 as claimed: in test mode, with test_repository_path and the other
\* required keys present and valid, a mapping without the repository_url
\* key passes
C3_UrlKeyOptionalInTestMode ==
    ( /\ pc = "validate_returned"
      /\ "repository_url" \notin DOMAIN config.d
      /\ {"package_name", "test_repository_mode", "test_repository_path",
          "output_filename", "ascii_tree_output"} \subseteq DOMAIN config.d
      /\ config.d["test_repository_mode"] = Bool(TRUE)
      /\ IsStr(config.d["package_name"])
      /\ strip(config.d["package_name"].s) # <<>> )
    => exc = NoExc

\* C3 amended: the repository_url key is required in test mode too (without
\* it the call fails naming repository_url); test mode exempts only the
\* value: with the key present the mapping passes whatever the value is
C3_UrlKeyRequiredValueUnchecked ==
    ( /\ pc = "validate_returned"
      /\ {"package_name", "test_repository_mode", "test_repository_path",
          "output_filename", "ascii_tree_output"} \subseteq DOMAIN config.d
      /\ config.d["test_repository_mode"] = Bool(TRUE)
      /\ IsStr(config.d["package_name"])
      /\ strip(config.d["package_name"].s) # <<>> )
    => IF "repository_url" \in DOMAIN config.d
       THEN exc = NoExc
       ELSE exc = Exc("ValueError", "missing_param", "repository_url")

\* test mode, the key present with a value that is no string: passes
C3_Witness ==
    /\ pc = "validate_returned"
    /\ {"test_repository_mode", "test_repository_path", "repository_url"}
         \subseteq DOMAIN config.d
    /\ config.d["test_repository_mode"] = Bool(TRUE)
    /\ config.d["repository_url"] = None
    /\ exc = NoExc

----------------------------------------------------------------------------
(* Properties of merge_configs (SpecMerge) *)

\* key k is in both mappings with the same value, or in neither
SameAt(d1, d2, k) ==
    /\ (k \in DOMAIN d1) <=> (k \in DOMAIN d2)
    /\ k \in DOMAIN d1 => d1[k] = d2[k]

\* the namespace carries no override
CarriesNoOverride(a) ==
    /\ a.package_name = None /\ a.repository_url = None
    /\ a.output_filename = None /\ a.package_filter = None
    /\ ~a.ascii_tree /\ ~a.no_ascii_tree /\ ~a.test_mode /\ ~a.no_test_mode

\* C4: merging a file mapping with arguments that carry no override returns
\* a mapping equal to the file mapping: the same keys with the same values,
\* no optional key added
C4_NoOverrideIsIdentity ==
    (pc = "merge_returned" /\ CarriesNoOverride(args)) =>
        /\ exc = NoExc
        /\ DOMAIN config.d = DOMAIN file_config.d
        /\ \A k \in DOMAIN config.d : config.d[k] = file_config.d[k]

\* no override, and a file mapping without the optional package_filter
C4_Witness ==
    /\ pc = "merge_returned"
    /\ CarriesNoOverride(args)
    /\ "package_filter" \notin DOMAIN file_config.d
    /\ "package_name" \in DOMAIN file_config.d
    /\ config = file_config

\* C5: package_name, repository_url and output_filename take the command
\* line's value when it is a non-empty string and keep the file's value (or
\* stay absent) when it is absent or empty; package_filter takes the command
\* line's value whenever the flag was given, the empty string included, and
\* keeps the file's value only when the flag was absent
C5_StringOverrides ==
    pc = "merge_returned" =>
        /\ \A k \in {"package_name", "repository_url", "output_filename"} :
             IF IsStr(args[k]) /\ args[k].s # <<>>
             THEN k \in DOMAIN config.d /\ config.d[k] = args[k]
             ELSE SameAt(config.d, file_config.d, k)
        /\ IF args.package_filter # None
           THEN /\ "package_filter" \in DOMAIN config.d
                /\ config.d["package_filter"] = args.package_filter
           ELSE SameAt(config.d, file_config.d, "package_filter")

\* file package_name "a" with --package-name b gives "b"; --package-filter ""
\* replaces the file's filter; an empty --output-filename keeps the file's
C5_Witness ==
    /\ pc = "merge_returned"
    /\ "package_name" \in DOMAIN file_config.d
    /\ file_config.d["package_name"] = Str(<<"a">>)
    /\ args.package_name = Str(<<"b">>)
    /\ config.d["package_name"] = Str(<<"b">>)
    /\ "package_filter" \in DOMAIN file_config.d
    /\ file_config.d["package_filter"] = Str(<<"f">>)
    /\ args.package_filter = Str(<<>>)
    /\ config.d["package_filter"] = Str(<<>>)
    /\ args.output_filename = Str(<<>>)
    /\ "output_filename" \in DOMAIN file_config.d
    /\ config.d["output_filename"] = file_config.d["output_filename"]

\* the value of a boolean key after its pair of flags
FlagRule(k, positive, negative) ==
    IF negative THEN k \in DOMAIN config.d /\ config.d[k] = Bool(FALSE)
    ELSE IF positive THEN k \in DOMAIN config.d /\ config.d[k] = Bool(TRUE)
    ELSE SameAt(config.d, file_config.d, k)

\* C6: ascii_tree_output is true after --ascii-tree, false after
\* --no-ascii-tree, the file's value (or absent) after neither;
\* test_repository_mode likewise with --test-mode and --no-test-mode; with
\* both flags of a pair the negative one wins
C6_FlagOverrides ==
    pc = "merge_returned" =>
        /\ FlagRule("ascii_tree_output", args.ascii_tree, args.no_ascii_tree)
        /\ FlagRule("test_repository_mode", args.test_mode, args.no_test_mode)

\* both flags of the ascii pair over a file value of true: false wins; and
\* --test-mode alone over a file value of false
C6_Witness ==
    /\ pc = "merge_returned"
    /\ args.ascii_tree /\ args.no_ascii_tree
    /\ "ascii_tree_output" \in DOMAIN file_config.d
    /\ file_config.d["ascii_tree_output"] = Bool(TRUE)
    /\ config.d["ascii_tree_output"] = Bool(FALSE)
    /\ args.test_mode /\ ~args.no_test_mode
    /\ "test_repository_mode" \in DOMAIN file_config.d
    /\ file_config.d["test_repository_mode"] = Bool(FALSE)
    /\ config.d["test_repository_mode"] = Bool(TRUE)

\* the keys merge_configs may assign
Overridable ==
    {"package_name", "repository_url", "output_filename", "package_filter",
     "ascii_tree_output", "test_repository_mode"}

\* C7: the call leaves the caller's file mapping as it was, whatever the
\* overrides; the returned mapping has every key of the file mapping, and
\* every key outside Overridable (unknown keys included) with the file's
\* value, and no other key outside Overridable
C7_FileMappingKept ==
    [][pc = "call_merge" =>
         /\ file_config' = file_config
         /\ DOMAIN file_config.d \subseteq DOMAIN config'.d
         /\ \A k \in Keys \ Overridable : SameAt(config'.d, file_config.d, k)]_vars

\* an override changed a value, the file mapping (with its unknown key) did
\* not follow, and the unknown key came through
C7_Witness ==
    /\ pc = "merge_returned"
    /\ "schema_version" \in DOMAIN file_config.d
    /\ "schema_version" \in DOMAIN config.d
    /\ config.d["schema_version"] = file_config.d["schema_version"]
    /\ "package_name" \in DOMAIN file_config.d
    /\ args.package_name = Str(<<"b">>)
    /\ file_config.d["package_name"] = Str(<<"a">>)
    /\ config.d["package_name"] = Str(<<"b">>)

----------------------------------------------------------------------------
(* Round trip of the defaults (SpecRoundTrip) *)

\* the fixed default mapping
DefaultMapping ==
    MkDict(<<Str(<<"example-package">>), Str(<<"https://github.com/example/repo">>),
             Bool(FALSE), Str(<<"./test-repo">>), Str(<<"dependency_graph.png">>),
             Bool(TRUE), Str(<<>>), Missing>>)

\* C8: whatever the path held before (nothing, a valid configuration,
\* malformed JSON), create_default_config(path) followed by
\* load_configuration(path) returns the fixed default mapping, and
\* validate_configuration accepts it; the only call that can raise is
\* create_default_config itself, on a path that is no file
C8_DefaultsRoundTrip ==
    /\ pc \in {"call_validate", "validate_returned"} => config = PyDict(DefaultMapping)
    /\ pc = "validate_returned" => exc = NoExc
    /\ pc = "raised" => ran = <<"create">> /\ fs[args.config] = Dir

\* the defaults were written, loaded and validated
C8_Witness ==
    /\ pc = "validate_returned"
    /\ ran = <<"create", "load", "validate">>
    /\ config = PyDict(DefaultMapping)
    /\ exc = NoExc

----------------------------------------------------------------------------
(* Properties of main (Spec) *)

Pipeline == <<"parse", "load", "merge", "validate", "present", "summary">>

CreateRun == <<"parse", "create">>

IsPrefix(a, b) == Len(a) <= Len(b) /\ a = SubSeq(b, 1, Len(a))

\* some line of the configuration block or of the summary is on stdout
BlockOrSummaryPrinted ==
    \E i \in 1..Len(out) :
        out[i][1] \in {"header", "kv", "footer", "ok", "ready", "saved_to", "ascii"}

\* the whole block and the whole summary are on stdout, and nothing else
BlockAndSummaryPrinted ==
    /\ Len(out) >= 5
    /\ out[1][1] = "header"
    /\ \E i \in 2..Len(out) :
         /\ out[i][1] = "footer"
         /\ \A j \in 2..(i - 1) : out[j][1] = "kv"
         /\ {out[j][2] : j \in 2..(i - 1)} = DOMAIN config.d
         /\ Len(out) \in {i + 3, i + 4}
         /\ out[i + 1][1] = "ok" /\ out[i + 2][1] = "ready" /\ out[i + 3][1] = "saved_to"
         /\ Len(out) = i + 4 => out[i + 4][1] = "ascii"

\* load, merge and validate succeeded, validate on the merged configuration
LoadMergeValidateSucceeded ==
    /\ load_configuration(fs, args.config) = LoadResult(NoExc, file_config)
    /\ file_config.py = "dict"
    /\ merge_configs(file_config, args).exc = NoExc
    /\ merge_configs(file_config, args).config = config
    /\ validate_configuration(config.d) = NoExc

\* what C9 says of every run but for the exit codes and --create-config
C9_Common ==
    /\ IsPrefix(ran, Pipeline) \/ ran = CreateRun
    /\ BlockOrSummaryPrinted => LoadMergeValidateSucceeded
    /\ (pc = "done" /\ ran = Pipeline) => (exit_code = 0 /\ BlockAndSummaryPrinted)
    /\ (pc = "done" /\ exit_code = 0 /\ ~argv.help) => ran \in {Pipeline, CreateRun}
    /\ (pc = "done" /\ out = << <<"help", "">> >>) => (ran = <<"parse">> /\ exit_code = 0)
    /\ (pc = "done" /\ ran \notin {Pipeline, CreateRun}) => ~BlockOrSummaryPrinted
    /\ argv.create_config => IsPrefix(ran, CreateRun)

\* C9 as claimed: the stages run in order; block and summary are printed
\* and the exit code is 0 only after load, merge and validate succeeded; a
\* run in which a stage fails stops there, prints nothing of block or
\* summary and exits with code 1; with --create-config the defaults are
\* written and the run ends with exit code 0 without load, merge, validate
C9_AsClaimed ==
    /\ C9_Common
    /\ (pc = "done" /\ ran \notin {Pipeline, CreateRun} /\ ~argv.help) => exit_code = 1
    /\ (pc = "done" /\ argv.create_config /\ ~argv.help) =>
         /\ ran = CreateRun
         /\ exit_code = 0
         /\ fs[argv.config] = File(json_dump(default_config))

\* C9 amended: as claimed, except that a command line the parser rejects
\* ends the run at the parse stage with exit code 2, and that
\* create_default_config can fail (the path is a directory): then nothing
\* is written or printed and the run ends with exit code 1.  (A run with
\* --help ends at the parse stage: the help and exit code 0, or a usage
\* error met first and exit code 2.)
C9_NoPartialSuccess ==
    /\ C9_Common
    /\ (pc = "done" /\ ran \notin {Pipeline, CreateRun} /\ ~argv.help) =>
         IF usage_error(argv) THEN ran = <<"parse">> /\ exit_code = 2 /\ out = <<>>
         ELSE exit_code = 1
    /\ (pc = "done" /\ argv.help) =>
         /\ ran = <<"parse">>
         /\ \/ exit_code = 0 /\ out = << <<"help", "">> >>
            \/ usage_error(argv) /\ exit_code = 2 /\ out = <<>>
    /\ (pc = "done" /\ argv.create_config /\ ~usage_error(argv) /\ ~argv.help) =>
         /\ ran = CreateRun
         /\ IF exc = NoExc
            THEN /\ exit_code = 0
                 /\ fs[argv.config] = File(json_dump(default_config))
                 /\ out = << <<"created", argv.config>> >>
            ELSE /\ exit_code = 1
                 /\ fs[argv.config] = Dir
                 /\ out = <<>>

\* a run that fails at validate after an override: it ends there with the
\* validation message alone and exit code 1
C9_Witness ==
    /\ pc = "done"
    /\ ran = <<"parse", "load", "merge", "validate">>
    /\ args.test_mode
    /\ exc.field = "test_repository_path"
    /\ exit_code = 1
    /\ out = << <<"validation_error", "missing_test_path">> >>

\* C10: a run that fails inside the try block is classified by the kind of
\* its failure: a missing file gives the not-found message and the hint;
\* the validation-error message is given by a failure of
\* validate_configuration and by no other; every other failure (malformed
\* JSON, another I/O error of load_configuration, a failure in merge) gives
\* the unexpected-error message; the exit code is 1
C10_ErrorClassification ==
    (pc = "done" /\ "load" \in {ran[i] : i \in 1..Len(ran)} /\ exc # NoExc) =>
        LET failed == ran[Len(ran)] IN
        /\ exit_code = 1
        /\ exc.type = "FileNotFoundError" =>
             out = << <<"not_found", args.config>>, <<"hint_create_config", "">> >>
        /\ failed = "validate" => out = << <<"validation_error", exc.msg>> >>
        /\ (failed # "validate" /\ exc.type # "FileNotFoundError") =>
             out = << <<"unexpected_error", exc.msg>> >>

====
